---- MODULE Spec2Model ----
(***************************************************************************)
(* Multi-tenant CRM backend: the persisted store (companies, users,        *)
(* contacts, leads, tasks), the credential routes (register, login, me),   *)
(* the auth middleware, and the tenant-scoped record routes.               *)
(*                                                                         *)
(* A SQL NULL and a JavaScript undefined are both the value NULL; an       *)
(* integer column holds <<n>> or <<>> (no value).  Ids stand for UUIDs:    *)
(* uuidv4() is a per-table counter, so an id is never handed out twice.    *)
(* Time is counted in days.                                                *)
(***************************************************************************)
EXTENDS Integers, Sequences, FiniteSets, TLC

VARIABLES companies, users, contacts, leads, tasks,
          ids, regs, pending, held, now, resp

vars == <<companies, users, contacts, leads, tasks,
          ids, regs, pending, held, now, resp>>

store == <<companies, users, contacts, leads, tasks>>

(* ---------------------------------------------------------------- bounds *)
MaxTime == 8
MaxCompanies == 2
MaxHeld == 1
MaxRows == 2
MaxClock == 1
MaxInFlight == 2

(* ------------------------------------------------------------- constants *)
TokenTTL == 7
DefaultLimit == 100

NULL == "NULL"
NoId == 0
Secret == "fallback-secret-key"
OtherKey == "attacker-key"

(* ------------------------------------------------------- token service -- *)
(* jwt.sign / jwt.verify: the signature is a MAC of the payload under the  *)
(* key; verify recomputes it and compares, then checks the expiry.         *)
Mac(userId, iat, exp, key) == <<key, userId, iat, exp>>

NoToken == [userId |-> NoId, iat |-> 0, exp |-> 0, sig |-> <<>>]

SignBadTTL(userId, t) ==
    [userId |-> userId, iat |-> t, exp |-> t + TokenTTL + 1,
     sig |-> Mac(userId, t, t + TokenTTL + 1, Secret)]

Sign(userId, t) ==
    [userId |-> userId, iat |-> t, exp |-> t + TokenTTL,
     sig |-> Mac(userId, t, t + TokenTTL, Secret)]

Verify(tok, t) ==
    /\ tok.sig = Mac(tok.userId, tok.iat, tok.exp, Secret)
    /\ t < tok.exp

(* What a client can present in place of a token it holds: the payload     *)
(* edited under the old signature, or the payload signed with another key. *)
Tampered(tok) ==
    { [tok EXCEPT !.exp = tok.exp + 1],
      [tok EXCEPT !.userId = tok.userId + 1],
      [tok EXCEPT !.sig = Mac(tok.userId, tok.iat, tok.exp, OtherKey)] }

HeldTokens == { h.token : h \in held }

Presentable == {NoToken} \cup HeldTokens \cup UNION { Tampered(t) : t \in HeldTokens }

(* The tokens a client holds on to: a new one is kept while there is room,   *)
(* and otherwise either discarded or kept in place of an older one.         *)
Keep(tok, user, route) ==
    LET h == [token |-> tok, user |-> user, at |-> now, by |-> route]
    IN IF Cardinality(held) < MaxHeld
       THEN {held \cup {h}}
       ELSE {held} \cup { (held \ {x}) \cup {h} : x \in held }

(* ------------------------------------------------------ password hashing *)
(* bcrypt.hash / bcrypt.compare: both throw on a password that is not a    *)
(* string.                                                                 *)
IsString(x) == x # NULL

Hash(password) == <<"bcrypt", password>>

Compare(password, hash) == hash = Hash(password)

(* ------------------------------------------------------------- responses *)
NoResp ==
    [route |-> "none", status |-> 0, error |-> "", token |-> NoToken,
     cred |-> NoToken, user |-> NoId, company |-> NoId, email |-> NULL,
     password |-> NULL, slot |-> 0, id |-> NoId, payload |-> NULL, reads |-> {},
     rows |-> <<>>]

Reply(route, status, error) ==
    [NoResp EXCEPT !.route = route, !.status = status, !.error = error]

(* A response is on the wire until Respond has delivered it; the server     *)
(* takes up the next piece of work once it is out.                          *)
Ready == resp = NoResp

Respond ==
    /\ resp # NoResp
    /\ resp' = NoResp
    /\ UNCHANGED <<store, ids, regs, pending, held, now>>

(* --------------------------------------------------------- auth middleware *)
UserById(id) == { u \in users : u.id = id }

(* The outcome of the middleware for a presented credential: "next" with   *)
(* the resolved user row, or the 401 it answers.                           *)
authNoLookup(cred) ==
    IF cred = NoToken
    THEN [ok |-> FALSE, error |-> "No token, authorization denied", user |-> NoId, company |-> NoId]
    ELSE IF ~Verify(cred, now)
    THEN [ok |-> FALSE, error |-> "Token is not valid", user |-> NoId, company |-> NoId]
    ELSE [ok |-> TRUE, error |-> "", user |-> cred.userId, company |-> NoId]

auth(cred) ==
    IF cred = NoToken
    THEN [ok |-> FALSE, error |-> "No token, authorization denied", user |-> NoId, company |-> NoId]
    ELSE IF ~Verify(cred, now)
    THEN [ok |-> FALSE, error |-> "Token is not valid", user |-> NoId, company |-> NoId]
    ELSE IF UserById(cred.userId) = {}
    THEN [ok |-> FALSE, error |-> "User not found", user |-> NoId, company |-> NoId]
    ELSE LET u == CHOOSE u \in UserById(cred.userId) : TRUE
         IN [ok |-> TRUE, error |-> "", user |-> u.id, company |-> u.company_id]

Denied(route, cred) ==
    [Reply(route, 401, auth(cred).error) EXCEPT !.cred = cred]

(* ------------------------------------------------------ POST /auth/register *)
RegisterBodies ==
    { [name |-> "Ann", email |-> "a@x", password |-> "pw1", companyName |-> "Acme"],
      [name |-> "Bob", email |-> "a@x", password |-> "pw2", companyName |-> NULL],
      [name |-> "Bob", email |-> "b@x", password |-> "pw2", companyName |-> NULL],
      [name |-> "Cyd", email |-> "b@x", password |-> NULL,  companyName |-> NULL],
      [name |-> NULL,  email |-> "b@x", password |-> "pw1", companyName |-> "Acme"] }

Slots == {1, 2}

IdleReg == [pc |-> "idle", body |-> [name |-> NULL, email |-> NULL, password |-> NULL, companyName |-> NULL],
            company |-> NoId, hash |-> <<>>, taken |-> FALSE]

InFlight == { s \in Slots : regs[s].pc # "idle" }

UsersByEmail(email) == { u \in users : u.email = email }

(* The request arrives; nothing has been read yet. *)
RegisterArrive(s, body) ==
    /\ Ready
    /\ regs[s].pc = "idle"
    /\ ids.company + Cardinality(InFlight) < MaxCompanies
    /\ regs' = [regs EXCEPT ![s] = [IdleReg EXCEPT !.pc = "check", !.body = body,
                                                   !.taken = UsersByEmail(body.email) # {}]]
    /\ UNCHANGED <<store, ids, pending, held, now, resp>>

(* SELECT id FROM users WHERE email = $1, answered 400 when a row comes back *)
RegisterCheckNoReject(s) ==
    /\ Ready
    /\ regs[s].pc = "check"
    /\ regs' = [regs EXCEPT ![s].pc = "company"]
    /\ UNCHANGED <<store, ids, pending, held, now, resp>>

RegisterCheck(s) ==
    /\ Ready
    /\ regs[s].pc = "check"
    /\ IF UsersByEmail(regs[s].body.email) # {}
       THEN /\ regs' = [regs EXCEPT ![s] = IdleReg]
            /\ resp' = [Reply("register", 400, "User already exists")
                          EXCEPT !.email = regs[s].body.email, !.slot = s]
       ELSE /\ regs' = [regs EXCEPT ![s].pc = "company"]
            /\ UNCHANGED resp
    /\ UNCHANGED <<store, ids, pending, held, now>>

(* INSERT INTO companies (id, name) VALUES (uuidv4(), companyName || 'My Company') *)
RegisterInsertCompany(s) ==
    /\ Ready
    /\ regs[s].pc = "company"
    /\ LET id == ids.company + 1
           nm == IF regs[s].body.companyName = NULL THEN "My Company"
                 ELSE regs[s].body.companyName
       IN /\ companies' = companies \cup {[id |-> id, name |-> nm]}
          /\ ids' = [ids EXCEPT !.company = id]
          /\ regs' = [regs EXCEPT ![s].pc = "hash", ![s].company = id]
    /\ UNCHANGED <<users, contacts, leads, tasks, pending, held, now, resp>>

(* bcrypt.genSalt, bcrypt.hash; a throw lands in the catch: 500 *)
RegisterHash(s) ==
    /\ Ready
    /\ regs[s].pc = "hash"
    /\ IF IsString(regs[s].body.password)
       THEN /\ regs' = [regs EXCEPT ![s].pc = "user", ![s].hash = Hash(regs[s].body.password)]
            /\ UNCHANGED resp
       ELSE /\ regs' = [regs EXCEPT ![s] = IdleReg]
            /\ resp' = [Reply("register", 500, "Server error during registration")
                          EXCEPT !.email = regs[s].body.email, !.slot = s]
    /\ UNCHANGED <<store, ids, pending, held, now>>

(* The constraints of the users table that an INSERT can violate *)
UserInsertOk(row) ==
    /\ row.email # NULL /\ row.name # NULL /\ row.password_hash # <<>>
    /\ UsersByEmail(row.email) = {}
    /\ \E c \in companies : c.id = row.company_id

(* INSERT INTO users ..., jwt.sign, 201; a constraint violation: 500 *)
RegisterInsertUser(s) ==
    /\ Ready
    /\ regs[s].pc = "user"
    /\ LET b == regs[s].body
           row == [id |-> ids.user + 1, email |-> b.email, password_hash |-> regs[s].hash,
                   name |-> b.name, company_id |-> regs[s].company, role |-> "user"]
           tok == Sign(row.id, now)
       IN IF UserInsertOk(row)
          THEN /\ users' = users \cup {row}
               /\ ids' = [ids EXCEPT !.user = row.id]
               /\ held' \in Keep(tok, row.id, "register")
               /\ resp' = [Reply("register", 201, "")
                             EXCEPT !.token = tok, !.user = row.id, !.email = row.email, !.slot = s]
          ELSE /\ resp' = [Reply("register", 500, "Server error during registration")
                             EXCEPT !.email = b.email, !.slot = s]
               /\ UNCHANGED <<users, ids, held>>
    /\ regs' = [regs EXCEPT ![s] = IdleReg]
    /\ UNCHANGED <<companies, contacts, leads, tasks, pending, now>>

(* --------------------------------------------------------- POST /auth/login *)
LoginBodies ==
    { [email |-> e, password |-> p] : e \in {"a@x", "b@x", "c@x"}, p \in {"pw1", "pw2", NULL} }

(* What the handler answers, and the token it issues, in the current store *)
LoginResultLeaky(body) ==
    IF UsersByEmail(body.email) = {}
    THEN [Reply("login", 400, "Unknown email") EXCEPT !.email = body.email]
    ELSE LET user == CHOOSE u \in UsersByEmail(body.email) : TRUE
         IN IF ~IsString(body.password)
            THEN [Reply("login", 500, "Server error during login") EXCEPT !.email = body.email]
            ELSE IF ~Compare(body.password, user.password_hash)
            THEN [Reply("login", 400, "Invalid credentials") EXCEPT !.email = body.email]
            ELSE [Reply("login", 200, "")
                    EXCEPT !.token = Sign(user.id, now), !.user = user.id,
                           !.company = user.company_id, !.email = user.email]

LoginResult(body) ==
    IF UsersByEmail(body.email) = {}
    THEN [Reply("login", 400, "Invalid credentials") EXCEPT !.email = body.email]
    ELSE LET user == CHOOSE u \in UsersByEmail(body.email) : TRUE
         IN IF ~IsString(body.password)
            THEN [Reply("login", 500, "Server error during login") EXCEPT !.email = body.email]
            ELSE IF ~Compare(body.password, user.password_hash)
            THEN [Reply("login", 400, "Invalid credentials") EXCEPT !.email = body.email]
            ELSE [Reply("login", 200, "")
                    EXCEPT !.token = Sign(user.id, now), !.user = user.id,
                           !.company = user.company_id, !.email = user.email]

Login(body) ==
    /\ Ready
    /\ resp' = [LoginResult(body) EXCEPT !.password = body.password]
    /\ held' \in IF LoginResult(body).status = 200
                 THEN Keep(LoginResult(body).token, LoginResult(body).user, "login")
                 ELSE {held}
    /\ UNCHANGED <<store, ids, regs, pending, now>>

(* ------------------------------------------------------------ GET /auth/me *)
Me(cred) ==
    /\ Ready
    /\ resp' = (IF auth(cred).ok
                THEN [Reply("me", 200, "") EXCEPT !.cred = cred, !.user = auth(cred).user,
                                                  !.company = auth(cred).company]
                ELSE Denied("me", cred))
    /\ UNCHANGED <<store, ids, regs, pending, held, now>>

(* ------------------------------------------------------------- environment *)
Tick ==
    /\ Ready
    /\ now < MaxTime
    /\ now' = now + 1
    /\ UNCHANGED <<store, ids, regs, pending, held, resp>>

(* DELETE of a companies row: users, contacts, leads and tasks of the       *)
(* company go with it (ON DELETE CASCADE).                                 *)
DeleteCompany(c) ==
    /\ Ready
    /\ c \in companies
    /\ companies' = companies \ {c}
    /\ users' = { u \in users : u.company_id # c.id }
    /\ contacts' = { r \in contacts : r.company_id # c.id }
    /\ leads' = { r \in leads : r.company_id # c.id }
    /\ tasks' = { r \in tasks : r.company_id # c.id }
    /\ UNCHANGED <<ids, regs, pending, held, now, resp>>

(* ------------------------------------------------- credential specification *)
AuthInit ==
    /\ companies = {} /\ users = {} /\ contacts = {} /\ leads = {} /\ tasks = {}
    /\ ids = [company |-> 0, user |-> 0, contact |-> 0, lead |-> 0, task |-> 0]
    /\ regs = [s \in Slots |-> IdleReg]
    /\ pending = {}
    /\ held = {}
    /\ now = 0
    /\ resp = NoResp

AuthNext ==
    \/ \E s \in Slots, b \in RegisterBodies : RegisterArrive(s, b)
    \/ \E s \in Slots : RegisterCheck(s)
    \/ \E s \in Slots : RegisterInsertCompany(s)
    \/ \E s \in Slots : RegisterHash(s)
    \/ \E s \in Slots : RegisterInsertUser(s)
    \/ \E b \in LoginBodies : Login(b)
    \/ Respond

AuthSpec == AuthInit /\ [][AuthNext]_vars

(* ---------------------------------------------------- session specification *)
(* One client registering and logging in with a well-formed body, holding   *)
(* on to tokens and presenting them (or edited copies) as time passes.      *)
SessionBodies == { b \in RegisterBodies : b.name = "Ann" }

SessionLogins == { [email |-> b.email, password |-> b.password] : b \in SessionBodies }

SessionNext ==
    \/ \E b \in SessionBodies : RegisterArrive(1, b)
    \/ RegisterCheck(1)
    \/ RegisterInsertCompany(1)
    \/ RegisterHash(1)
    \/ RegisterInsertUser(1)
    \/ \E b \in SessionLogins : Login(b)
    \/ \E cred \in Presentable : Me(cred)
    \/ \E c \in companies : DeleteCompany(c)
    \/ Tick
    \/ Respond

SessionSpec == AuthInit /\ [][SessionNext]_vars

(* ================================================================ records *)
(* A row read into a response, kept with the tenant it belongs to *)
Read(table, r) == [table |-> table, id |-> r.id, company_id |-> r.company_id]

Truthy(n) == n # <<>> /\ n # <<0>>

OrZero(n) == IF Truthy(n) THEN n ELSE <<0>>

Default(x, d) == IF x = NULL THEN d ELSE x

(* if (!name): an absent field and an empty string are both turned away *)
MissingSkipped(x) == FALSE

Missing(x) == x = NULL \/ x = ""

(* A NOT NULL column takes any value but NULL, the empty string included *)
NotNull(x) == x # NULL

(* Rows inserted so far, and inserts under way *)
RowsCreated ==
    ids.contact + ids.lead + ids.task + Cardinality({ p \in pending : p.kind = "create" })

(* The request went through the middleware and the handler answered *)
Handled(route, cred, status, error) ==
    [Reply(route, status, error) EXCEPT !.cred = cred, !.user = auth(cred).user,
                                        !.company = auth(cred).company]

(* A request that the middleware let through, and the answer to it once its *)
(* queries have run                                                         *)
Answer(route, p, status, error) ==
    [Reply(route, status, error) EXCEPT !.cred = p.cred, !.user = p.user,
                                        !.company = p.company, !.id = p.id, !.payload = p.body]

Request(kind, cred, id, b) ==
    [kind |-> kind, cred |-> cred, user |-> auth(cred).user,
     company |-> auth(cred).company, id |-> id, body |-> b]

(* The middleware's SELECT has run for an update and the handler's UPDATE   *)
(* has not yet: the request is in flight                                    *)
UpdateBegin(route, cred, id, b) ==
    /\ Ready
    /\ IF ~auth(cred).ok
       THEN /\ resp' = Denied(route, cred)
            /\ UNCHANGED pending
       ELSE /\ Cardinality(pending) < MaxInFlight
            /\ pending' = pending \cup {Request(route, cred, id, b)}
            /\ UNCHANGED resp
    /\ UNCHANGED <<store, ids, regs, held, now>>

(* ----------------------------------------------------------------- contacts *)
(* Request bodies: every field given, only the required one, the required   *)
(* one missing                                                              *)
ContactFull ==
    [name |-> "Ada", email |-> "ada@x", phone |-> "555", position |-> "CEO",
     company_name |-> "Initech", value |-> <<500>>, notes |-> "vip", status |-> "active"]

ContactMin ==
    [name |-> "Bea", email |-> NULL, phone |-> NULL, position |-> NULL,
     company_name |-> NULL, value |-> <<>>, notes |-> NULL, status |-> NULL]

ContactNoName ==
    [name |-> NULL, email |-> "cy@x", phone |-> NULL, position |-> NULL,
     company_name |-> NULL, value |-> <<>>, notes |-> NULL, status |-> NULL]

ContactBlank ==
    [name |-> "", email |-> "di@x", phone |-> NULL, position |-> NULL,
     company_name |-> NULL, value |-> <<>>, notes |-> NULL, status |-> NULL]

ContactStatuses == {NULL, "active"}

ContactsOfAnyCompany(company, id) == { r \in contacts : r.id = id }

(* ... FROM contacts WHERE id = $1 AND company_id = $2 *)
ContactsOf(company, id) == { r \in contacts : r.id = id /\ r.company_id = company }

(* ... FROM contacts WHERE company_id = $1 [AND status = $n] *)
ContactsListed(company, status) ==
    { r \in contacts : r.company_id = company /\ (status = NULL \/ r.status = status) }

ContactsList(cred, status) ==
    /\ Ready
    /\ resp' = (IF ~auth(cred).ok THEN Denied("contacts.list", cred)
                ELSE [Handled("contacts.list", cred, 200, "")
                        EXCEPT !.reads = { Read("contacts", r) :
                                           r \in ContactsListed(auth(cred).company, status) }])
    /\ UNCHANGED <<store, ids, regs, pending, held, now>>

ContactsGet(cred, id) ==
    /\ Ready
    /\ resp' = (IF ~auth(cred).ok THEN Denied("contacts.get", cred)
                ELSE IF ContactsOf(auth(cred).company, id) = {}
                THEN [Handled("contacts.get", cred, 404, "Contact not found") EXCEPT !.id = id]
                ELSE [Handled("contacts.get", cred, 200, "")
                        EXCEPT !.id = id,
                               !.reads = { Read("contacts", r) :
                                           r \in ContactsOf(auth(cred).company, id) }])
    /\ UNCHANGED <<store, ids, regs, pending, held, now>>

(* INSERT INTO contacts (...) VALUES (uuidv4(), company_id, ..., value || 0, ..., CURRENT_DATE) *)
ContactRow(id, company, b) ==
    [id |-> id, company_id |-> company, name |-> b.name, email |-> b.email,
     phone |-> b.phone, position |-> b.position, company_name |-> b.company_name,
     value |-> OrZero(b.value), notes |-> b.notes, status |-> Default(b.status, "prospect"),
     last_contact |-> now, created_at |-> now, updated_at |-> now]

ContactsCreate(cred, b) ==
    /\ Ready
    /\ IF ~auth(cred).ok
       THEN /\ resp' = Denied("contacts.create", cred)
            /\ UNCHANGED <<contacts, ids>>
       ELSE IF Missing(b.name)
       THEN /\ resp' = [Handled("contacts.create", cred, 400, "Name is required")
                          EXCEPT !.payload = b]
            /\ UNCHANGED <<contacts, ids>>
       ELSE IF ~NotNull(b.name)
       THEN /\ resp' = [Handled("contacts.create", cred, 500, "Failed to create contact")
                          EXCEPT !.payload = b]
            /\ UNCHANGED <<contacts, ids>>
       ELSE LET row == ContactRow(ids.contact + 1, auth(cred).company, b)
            IN /\ RowsCreated < MaxRows
               /\ contacts' = contacts \cup {row}
               /\ ids' = [ids EXCEPT !.contact = row.id]
               /\ resp' = [Handled("contacts.create", cred, 201, "")
                             EXCEPT !.id = row.id, !.payload = b]
    /\ UNCHANGED <<companies, users, leads, tasks, regs, pending, held, now>>

ContactSetMerge(r, b) ==
    [r EXCEPT !.name = b.name,
              !.email = Default(b.email, r.email), !.phone = Default(b.phone, r.phone),
              !.position = Default(b.position, r.position),
              !.company_name = Default(b.company_name, r.company_name),
              !.value = IF b.value = <<>> THEN r.value ELSE b.value,
              !.notes = Default(b.notes, r.notes), !.status = Default(b.status, r.status),
              !.updated_at = now]

(* UPDATE contacts SET name = $1, ..., status = $8, updated_at = CURRENT_TIMESTAMP *)
ContactSet(r, b) ==
    [r EXCEPT !.name = b.name, !.email = b.email, !.phone = b.phone,
              !.position = b.position, !.company_name = b.company_name,
              !.value = b.value, !.notes = b.notes, !.status = b.status,
              !.updated_at = now]

(* The UPDATE and the answer: 404 when no row matched, 500 when the row    *)
(* would break a constraint                                                 *)
UpdateContact(p) ==
    IF ContactsOf(p.company, p.id) = {}
    THEN /\ resp' = Answer("contacts.update", p, 404, "Contact not found")
         /\ UNCHANGED contacts
    ELSE IF ~NotNull(p.body.name)
    THEN /\ resp' = Answer("contacts.update", p, 500, "Failed to update contact")
         /\ UNCHANGED contacts
    ELSE /\ contacts' = { IF r \in ContactsOf(p.company, p.id)
                          THEN ContactSet(r, p.body) ELSE r : r \in contacts }
         /\ resp' = Answer("contacts.update", p, 200, "")

ContactsUpdate(cred, id, b) ==
    /\ Ready
    /\ IF ~auth(cred).ok
       THEN /\ resp' = Denied("contacts.update", cred)
            /\ UNCHANGED contacts
       ELSE UpdateContact(Request("contacts.update", cred, id, b))
    /\ UNCHANGED <<companies, users, leads, tasks, ids, regs, pending, held, now>>

ContactsUpdateBegin(cred, id, b) == UpdateBegin("contacts.update", cred, id, b)

(* The UPDATE of a request in flight *)
ContactsUpdateWrite(p) ==
    /\ Ready
    /\ p \in pending /\ p.kind = "contacts.update"
    /\ UpdateContact(p)
    /\ pending' = pending \ {p}
    /\ UNCHANGED <<companies, users, leads, tasks, ids, regs, held, now>>

TasksAfterContactDeleteCascade(gone) ==
    { t \in tasks : t.contact_id \notin { r.id : r \in gone } }

(* tasks.contact_id ... ON DELETE SET NULL; the update of the task row runs  *)
(* the update_tasks_updated_at trigger                                      *)
TasksAfterContactDelete(gone) ==
    { IF t.contact_id \in { r.id : r \in gone }
      THEN [t EXCEPT !.contact_id = NoId, !.updated_at = now]
      ELSE t : t \in tasks }

ContactsDelete(cred, id) ==
    /\ Ready
    /\ IF ~auth(cred).ok
       THEN /\ resp' = Denied("contacts.delete", cred)
            /\ UNCHANGED <<contacts, tasks>>
       ELSE IF ContactsOf(auth(cred).company, id) = {}
       THEN /\ resp' = [Handled("contacts.delete", cred, 404, "Contact not found")
                          EXCEPT !.id = id]
            /\ UNCHANGED <<contacts, tasks>>
       ELSE /\ contacts' = contacts \ ContactsOf(auth(cred).company, id)
            /\ tasks' = TasksAfterContactDelete(ContactsOf(auth(cred).company, id))
            /\ resp' = [Handled("contacts.delete", cred, 200, "")
                          EXCEPT !.id = id,
                                 !.reads = { Read("contacts", r) :
                                             r \in ContactsOf(auth(cred).company, id) }]
    /\ UNCHANGED <<companies, users, leads, ids, regs, pending, held, now>>

(* -------------------------------------------------------------------- leads *)
LeadFull ==
    [title |-> "Deal", company_name |-> "Globex", contact_name |-> "Mike",
     value |-> <<750>>, stage |-> "negotiation", probability |-> <<70>>,
     expected_close |-> "2024-02-15", source |-> "Website", notes |-> "big"]

LeadMin ==
    [title |-> "Pack", company_name |-> NULL, contact_name |-> NULL,
     value |-> <<>>, stage |-> NULL, probability |-> <<>>,
     expected_close |-> NULL, source |-> NULL, notes |-> NULL]

LeadNoTitle ==
    [title |-> NULL, company_name |-> "Bakery", contact_name |-> NULL,
     value |-> <<>>, stage |-> NULL, probability |-> <<>>,
     expected_close |-> NULL, source |-> NULL, notes |-> NULL]

LeadBlank ==
    [title |-> "", company_name |-> "Cafe", contact_name |-> NULL,
     value |-> <<>>, stage |-> NULL, probability |-> <<>>,
     expected_close |-> NULL, source |-> NULL, notes |-> NULL]

(* A probability above 100 and one below 0 *)
LeadOver ==
    [title |-> "Moon", company_name |-> NULL, contact_name |-> NULL,
     value |-> <<>>, stage |-> NULL, probability |-> <<150>>,
     expected_close |-> NULL, source |-> NULL, notes |-> NULL]

LeadUnder ==
    [title |-> "Dust", company_name |-> NULL, contact_name |-> NULL,
     value |-> <<>>, stage |-> NULL, probability |-> <<-5>>,
     expected_close |-> NULL, source |-> NULL, notes |-> NULL]

LeadStages == {NULL, "negotiation"}

(* probability INTEGER ... CHECK (probability >= 0 AND probability <= 100) *)
ProbabilityCheck(p) == p = <<>> \/ (p[1] >= 0 /\ p[1] <= 100)

LeadsOfAnyCompany(company, id) == { r \in leads : r.id = id }

LeadsOf(company, id) == { r \in leads : r.id = id /\ r.company_id = company }

LeadsListed(company, stage) ==
    { r \in leads : r.company_id = company /\ (stage = NULL \/ r.stage = stage) }

LeadsList(cred, stage) ==
    /\ Ready
    /\ resp' = (IF ~auth(cred).ok THEN Denied("leads.list", cred)
                ELSE [Handled("leads.list", cred, 200, "")
                        EXCEPT !.reads = { Read("leads", r) :
                                           r \in LeadsListed(auth(cred).company, stage) }])
    /\ UNCHANGED <<store, ids, regs, pending, held, now>>

LeadsGet(cred, id) ==
    /\ Ready
    /\ resp' = (IF ~auth(cred).ok THEN Denied("leads.get", cred)
                ELSE IF LeadsOf(auth(cred).company, id) = {}
                THEN [Handled("leads.get", cred, 404, "Lead not found") EXCEPT !.id = id]
                ELSE [Handled("leads.get", cred, 200, "")
                        EXCEPT !.id = id,
                               !.reads = { Read("leads", r) :
                                           r \in LeadsOf(auth(cred).company, id) }])
    /\ UNCHANGED <<store, ids, regs, pending, held, now>>

(* INSERT INTO leads (...) with value || 0, stage = 'lead' and probability = 10 *)
(* standing in for an absent field                                          *)
LeadRow(id, company, b) ==
    [id |-> id, company_id |-> company, title |-> b.title,
     company_name |-> b.company_name, contact_name |-> b.contact_name,
     value |-> OrZero(b.value), stage |-> Default(b.stage, "lead"),
     probability |-> IF b.probability = <<>> THEN <<10>> ELSE b.probability,
     expected_close |-> b.expected_close, source |-> b.source, notes |-> b.notes,
     created_at |-> now, updated_at |-> now]

LeadsCreate(cred, b) ==
    /\ Ready
    /\ IF ~auth(cred).ok
       THEN /\ resp' = Denied("leads.create", cred)
            /\ UNCHANGED <<leads, ids>>
       ELSE IF Missing(b.title)
       THEN /\ resp' = [Handled("leads.create", cred, 400, "Title is required")
                          EXCEPT !.payload = b]
            /\ UNCHANGED <<leads, ids>>
       ELSE LET row == LeadRow(ids.lead + 1, auth(cred).company, b)
            IN IF ~NotNull(row.title) \/ ~ProbabilityCheck(row.probability)
               THEN /\ resp' = [Handled("leads.create", cred, 500, "Failed to create lead")
                                  EXCEPT !.payload = b]
                    /\ UNCHANGED <<leads, ids>>
               ELSE /\ RowsCreated < MaxRows
                    /\ leads' = leads \cup {row}
                    /\ ids' = [ids EXCEPT !.lead = row.id]
                    /\ resp' = [Handled("leads.create", cred, 201, "")
                                  EXCEPT !.id = row.id, !.payload = b]
    /\ UNCHANGED <<companies, users, contacts, tasks, regs, pending, held, now>>

LeadSetMerge(r, b) ==
    [r EXCEPT !.title = b.title, !.company_name = Default(b.company_name, r.company_name),
              !.contact_name = Default(b.contact_name, r.contact_name),
              !.value = IF b.value = <<>> THEN r.value ELSE b.value,
              !.stage = Default(b.stage, r.stage),
              !.probability = IF b.probability = <<>> THEN r.probability ELSE b.probability,
              !.expected_close = Default(b.expected_close, r.expected_close),
              !.source = Default(b.source, r.source), !.notes = Default(b.notes, r.notes),
              !.updated_at = now]

(* UPDATE leads SET title = $1, ..., notes = $9, updated_at = CURRENT_TIMESTAMP *)
LeadSet(r, b) ==
    [r EXCEPT !.title = b.title, !.company_name = b.company_name,
              !.contact_name = b.contact_name, !.value = b.value, !.stage = b.stage,
              !.probability = b.probability, !.expected_close = b.expected_close,
              !.source = b.source, !.notes = b.notes, !.updated_at = now]

UpdateLead(p) ==
    IF LeadsOf(p.company, p.id) = {}
    THEN /\ resp' = Answer("leads.update", p, 404, "Lead not found")
         /\ UNCHANGED leads
    ELSE IF ~NotNull(p.body.title) \/ ~ProbabilityCheck(p.body.probability)
    THEN /\ resp' = Answer("leads.update", p, 500, "Failed to update lead")
         /\ UNCHANGED leads
    ELSE /\ leads' = { IF r \in LeadsOf(p.company, p.id)
                       THEN LeadSet(r, p.body) ELSE r : r \in leads }
         /\ resp' = Answer("leads.update", p, 200, "")

LeadsUpdate(cred, id, b) ==
    /\ Ready
    /\ IF ~auth(cred).ok
       THEN /\ resp' = Denied("leads.update", cred)
            /\ UNCHANGED leads
       ELSE UpdateLead(Request("leads.update", cred, id, b))
    /\ UNCHANGED <<companies, users, contacts, tasks, ids, regs, pending, held, now>>

LeadsUpdateBegin(cred, id, b) == UpdateBegin("leads.update", cred, id, b)

LeadsUpdateWrite(p) ==
    /\ Ready
    /\ p \in pending /\ p.kind = "leads.update"
    /\ UpdateLead(p)
    /\ pending' = pending \ {p}
    /\ UNCHANGED <<companies, users, contacts, tasks, ids, regs, held, now>>

LeadsDelete(cred, id) ==
    /\ Ready
    /\ IF ~auth(cred).ok
       THEN /\ resp' = Denied("leads.delete", cred)
            /\ UNCHANGED leads
       ELSE IF LeadsOf(auth(cred).company, id) = {}
       THEN /\ resp' = [Handled("leads.delete", cred, 404, "Lead not found")
                          EXCEPT !.id = id]
            /\ UNCHANGED leads
       ELSE /\ leads' = leads \ LeadsOf(auth(cred).company, id)
            /\ resp' = [Handled("leads.delete", cred, 200, "")
                          EXCEPT !.id = id,
                                 !.reads = { Read("leads", r) :
                                             r \in LeadsOf(auth(cred).company, id) }]
    /\ UNCHANGED <<companies, users, contacts, tasks, ids, regs, pending, held, now>>

(* SELECT stage, count, SUM(value), AVG(probability) FROM leads WHERE company_id = $1 *)
LeadsPipeline(company) == { r \in leads : r.company_id = company }

LeadsStats(cred) ==
    /\ Ready
    /\ resp' = (IF ~auth(cred).ok THEN Denied("leads.stats", cred)
                ELSE [Handled("leads.stats", cred, 200, "")
                        EXCEPT !.reads = { Read("leads", r) :
                                           r \in LeadsPipeline(auth(cred).company) }])
    /\ UNCHANGED <<store, ids, regs, pending, held, now>>

(* -------------------------------------------------------------------- tasks *)
ContactRefs == 0..MaxRows

TaskFull(c) ==
    [title |-> "Call", description |-> "demo", due_date |-> "2024-01-20",
     priority |-> "high", status |-> "completed", contact_id |-> c]

TaskMin(c) ==
    [title |-> "Mail", description |-> NULL, due_date |-> NULL,
     priority |-> NULL, status |-> NULL, contact_id |-> c]

TaskNoTitle(c) ==
    [title |-> NULL, description |-> "lost", due_date |-> NULL,
     priority |-> NULL, status |-> NULL, contact_id |-> c]

TaskBlank(c) ==
    [title |-> "", description |-> "void", due_date |-> NULL,
     priority |-> NULL, status |-> NULL, contact_id |-> c]

(* A task with the given priority and due date and nothing else optional *)
TaskDue(p, d) ==
    [title |-> "Plan", description |-> NULL, due_date |-> d,
     priority |-> p, status |-> NULL, contact_id |-> NoId]

(* req.query: status, priority and limit (100 when the request gives none) *)
TaskFilters ==
    { [status |-> NULL, priority |-> NULL, limit |-> DefaultLimit],
      [status |-> "pending", priority |-> NULL, limit |-> DefaultLimit],
      [status |-> NULL, priority |-> "high", limit |-> DefaultLimit],
      [status |-> NULL, priority |-> NULL, limit |-> 1] }

TasksOf(company, id) == { r \in tasks : r.id = id /\ r.company_id = company }

(* ... FROM tasks t ... WHERE t.company_id = $1 [AND t.status = $n] [AND t.priority = $n] *)
TasksListed(company, f) ==
    { r \in tasks : /\ r.company_id = company
                    /\ (f.status = NULL \/ r.status = f.status)
                    /\ (f.priority = NULL \/ r.priority = f.priority) }

(* LEFT JOIN contacts c ON t.contact_id = c.id *)
Joined(ts) == { c \in contacts : \E t \in ts : t.contact_id = c.id }

(* c.name as contact_name: NULL when no contacts row joins *)
ContactName(t) ==
    IF Joined({t}) = {} THEN NULL ELSE (CHOOSE c \in Joined({t}) : TRUE).name

(* The due dates in use, in calendar order, and a DATE's place in it *)
Dates == <<"2024-01-10", "2024-01-20">>

DateOrd(d) == CHOOSE i \in 1..Len(Dates) : Dates[i] = d

(* CASE t.priority WHEN 'high' THEN 1 WHEN 'medium' THEN 2 WHEN 'low' THEN 3 END: *)
(* no value for any other priority                                          *)
PriorityRankPlain(p) ==
    IF p = "high" THEN <<1>> ELSE IF p = "low" THEN <<2>>
    ELSE IF p = "medium" THEN <<3>> ELSE <<>>

PriorityRank(p) ==
    IF p = "high" THEN <<1>> ELSE IF p = "medium" THEN <<2>>
    ELSE IF p = "low" THEN <<3>> ELSE <<>>

(* ASC of two sort keys, NULLS LAST (the default for ASC): -1, 0 or 1 *)
Asc(x, y) ==
    IF x = y THEN 0
    ELSE IF x = <<>> THEN 1
    ELSE IF y = <<>> THEN -1
    ELSE IF x[1] < y[1] THEN -1 ELSE 1

DueKey(d) == IF d = NULL THEN <<>> ELSE <<DateOrd(d)>>

(* ORDER BY CASE ..., t.due_date ASC NULLS LAST, t.created_at DESC: row a   *)
(* sorts strictly before row b                                              *)
OrderBy(a, b) ==
    LET k1 == Asc(PriorityRank(a.priority), PriorityRank(b.priority))
        k2 == Asc(DueKey(a.due_date), DueKey(b.due_date))
        k3 == Asc(<<b.created_at>>, <<a.created_at>>)
    IN k1 = -1 \/ (k1 = 0 /\ (k2 = -1 \/ (k2 = 0 /\ k3 = -1)))

(* The orders the sort can hand the rows back in: rows that tie on every    *)
(* key come in either order                                                 *)
TasksOrdered(ts) ==
    { s \in [1..Cardinality(ts) -> ts] :
        /\ \A i, j \in DOMAIN s : i # j => s[i] # s[j]
        /\ \A i, j \in DOMAIN s : i < j => ~OrderBy(s[j], s[i]) }

(* LIMIT $n *)
Limit(s, n) == IF Len(s) <= n THEN s ELSE SubSeq(s, 1, n)

(* SELECT t.id, t.title, ..., t.updated_at, c.name as contact_name *)
Listing(t) ==
    [id |-> t.id, title |-> t.title, description |-> t.description,
     due_date |-> t.due_date, priority |-> t.priority, status |-> t.status,
     contact_id |-> t.contact_id, created_at |-> t.created_at,
     updated_at |-> t.updated_at, contact_name |-> ContactName(t)]

TasksList(cred, f) ==
    /\ Ready
    /\ IF ~auth(cred).ok
       THEN resp' = Denied("tasks.list", cred)
       ELSE \E s \in TasksOrdered(TasksListed(auth(cred).company, f)) :
              LET rows == Limit(s, f.limit)
                  ts == { rows[i] : i \in DOMAIN rows }
              IN resp' = [Handled("tasks.list", cred, 200, "")
                            EXCEPT !.payload = f,
                                   !.rows = [i \in DOMAIN rows |-> Listing(rows[i])],
                                   !.reads = { Read("tasks", r) : r \in ts }
                                            \cup { Read("contacts", c) : c \in Joined(ts) }]
    /\ UNCHANGED <<store, ids, regs, pending, held, now>>

TasksGet(cred, id) ==
    /\ Ready
    /\ resp' = (IF ~auth(cred).ok THEN Denied("tasks.get", cred)
                ELSE LET ts == TasksOf(auth(cred).company, id)
                     IN IF ts = {}
                        THEN [Handled("tasks.get", cred, 404, "Task not found") EXCEPT !.id = id]
                        ELSE [Handled("tasks.get", cred, 200, "")
                                EXCEPT !.id = id,
                                       !.payload = [contact_id |-> (CHOOSE t \in ts : TRUE).contact_id,
                                                    contact_name |-> ContactName(CHOOSE t \in ts : TRUE)],
                                       !.reads = { Read("tasks", r) : r \in ts }
                                                \cup { Read("contacts", c) : c \in Joined(ts) }])
    /\ UNCHANGED <<store, ids, regs, pending, held, now>>

(* Verify contact belongs to same company if provided *)
ContactCheckAnyCompany(company, contact_id) == ContactsOfAnyCompany(company, contact_id) # {}

ContactCheck(company, contact_id) == ContactsOf(company, contact_id) # {}

(* tasks.contact_id UUID REFERENCES contacts(id) *)
ContactFkSkipped(contact_id) == TRUE

ContactFk(contact_id) == contact_id = NoId \/ \E c \in contacts : c.id = contact_id

(* INSERT INTO tasks (...) VALUES (uuidv4(), company_id, ...), priority = 'medium' *)
(* and status = 'pending' standing in for an absent field                   *)
TaskRow(id, company, b) ==
    [id |-> id, company_id |-> company, contact_id |-> b.contact_id, title |-> b.title,
     description |-> b.description, due_date |-> b.due_date,
     priority |-> Default(b.priority, "medium"), status |-> Default(b.status, "pending"),
     created_at |-> now, updated_at |-> now]

InsertTask(p) ==
    IF ~NotNull(p.body.title) \/ ~ContactFk(p.body.contact_id)
    THEN /\ resp' = Answer("tasks.create", p, 500, "Failed to create task")
         /\ UNCHANGED <<tasks, ids>>
    ELSE LET row == TaskRow(ids.task + 1, p.company, p.body)
         IN /\ tasks' = tasks \cup {row}
            /\ ids' = [ids EXCEPT !.task = row.id]
            /\ resp' = [Answer("tasks.create", p, 201, "") EXCEPT !.id = row.id]

TasksCreate(cred, b) ==
    /\ Ready
    /\ IF ~auth(cred).ok
       THEN /\ resp' = Denied("tasks.create", cred)
            /\ UNCHANGED <<tasks, ids, pending>>
       ELSE IF Missing(b.title)
       THEN /\ resp' = [Handled("tasks.create", cred, 400, "Title is required")
                          EXCEPT !.payload = b]
            /\ UNCHANGED <<tasks, ids, pending>>
       ELSE IF b.contact_id = NoId
       THEN /\ RowsCreated < MaxRows
            /\ InsertTask(Request("create", cred, NoId, b))
            /\ UNCHANGED pending
       ELSE IF ~ContactCheck(auth(cred).company, b.contact_id)
       THEN /\ resp' = [Handled("tasks.create", cred, 400, "Invalid contact ID")
                          EXCEPT !.payload = b]
            /\ UNCHANGED <<tasks, ids, pending>>
       ELSE /\ RowsCreated < MaxRows
            /\ pending = {}
            /\ pending' = pending \cup {Request("create", cred, NoId, b)}
            /\ UNCHANGED <<tasks, ids, resp>>
    /\ UNCHANGED <<companies, users, contacts, leads, regs, held, now>>

(* The INSERT of a request whose contact check passed *)
TasksCreateInsert(p) ==
    /\ Ready
    /\ p \in pending /\ p.kind = "create"
    /\ InsertTask(p)
    /\ pending' = pending \ {p}
    /\ UNCHANGED <<companies, users, contacts, leads, regs, held, now>>

(* UPDATE tasks SET title = $1, ..., contact_id = $6, updated_at = CURRENT_TIMESTAMP *)
TaskSet(r, b) ==
    [r EXCEPT !.title = b.title, !.description = b.description, !.due_date = b.due_date,
              !.priority = b.priority, !.status = b.status, !.contact_id = b.contact_id,
              !.updated_at = now]

UpdateTask(p) ==
    IF TasksOf(p.company, p.id) = {}
    THEN /\ resp' = Answer("tasks.update", p, 404, "Task not found")
         /\ UNCHANGED tasks
    ELSE IF ~NotNull(p.body.title) \/ ~ContactFk(p.body.contact_id)
    THEN /\ resp' = Answer("tasks.update", p, 500, "Failed to update task")
         /\ UNCHANGED tasks
    ELSE /\ tasks' = { IF r \in TasksOf(p.company, p.id) THEN TaskSet(r, p.body) ELSE r :
                       r \in tasks }
         /\ resp' = Answer("tasks.update", p, 200, "")

TasksUpdate(cred, id, b) ==
    /\ Ready
    /\ IF ~auth(cred).ok
       THEN /\ resp' = Denied("tasks.update", cred)
            /\ UNCHANGED <<tasks, pending>>
       ELSE IF b.contact_id = NoId
       THEN /\ UpdateTask(Request("update", cred, id, b))
            /\ UNCHANGED pending
       ELSE IF ~ContactCheck(auth(cred).company, b.contact_id)
       THEN /\ resp' = [Handled("tasks.update", cred, 400, "Invalid contact ID")
                          EXCEPT !.id = id, !.payload = b]
            /\ UNCHANGED <<tasks, pending>>
       ELSE /\ pending = {}
            /\ pending' = pending \cup {Request("update", cred, id, b)}
            /\ UNCHANGED <<tasks, resp>>
    /\ UNCHANGED <<companies, users, contacts, leads, ids, regs, held, now>>

(* The UPDATE of a request whose contact check passed *)
TasksUpdateWrite(p) ==
    /\ Ready
    /\ p \in pending /\ p.kind = "update"
    /\ UpdateTask(p)
    /\ pending' = pending \ {p}
    /\ UNCHANGED <<companies, users, contacts, leads, ids, regs, held, now>>

TasksUpdateBegin(cred, id, b) == UpdateBegin("tasks.update", cred, id, b)

(* The handler of a request in flight: straight to the UPDATE when the      *)
(* payload has no contact_id, else the contact check, which answers 400 or  *)
(* leaves the UPDATE to come                                                *)
TasksUpdateCheck(p) ==
    /\ Ready
    /\ p \in pending /\ p.kind = "tasks.update"
    /\ IF p.body.contact_id = NoId
       THEN /\ UpdateTask(p)
            /\ pending' = pending \ {p}
       ELSE IF ~ContactCheck(p.company, p.body.contact_id)
       THEN /\ resp' = Answer("tasks.update", p, 400, "Invalid contact ID")
            /\ pending' = pending \ {p}
            /\ UNCHANGED tasks
       ELSE /\ pending' = (pending \ {p}) \cup {[p EXCEPT !.kind = "update"]}
            /\ UNCHANGED <<tasks, resp>>
    /\ UNCHANGED <<companies, users, contacts, leads, ids, regs, held, now>>

TasksDelete(cred, id) ==
    /\ Ready
    /\ IF ~auth(cred).ok
       THEN /\ resp' = Denied("tasks.delete", cred)
            /\ UNCHANGED tasks
       ELSE IF TasksOf(auth(cred).company, id) = {}
       THEN /\ resp' = [Handled("tasks.delete", cred, 404, "Task not found")
                          EXCEPT !.id = id]
            /\ UNCHANGED tasks
       ELSE /\ tasks' = tasks \ TasksOf(auth(cred).company, id)
            /\ resp' = [Handled("tasks.delete", cred, 200, "")
                          EXCEPT !.id = id,
                                 !.reads = { Read("tasks", r) :
                                             r \in TasksOf(auth(cred).company, id) }]
    /\ UNCHANGED <<companies, users, contacts, leads, ids, regs, pending, held, now>>

(* SELECT status, priority, count FROM tasks WHERE company_id = $1 GROUP BY ... *)
TasksOverview(company) == { r \in tasks : r.company_id = company }

TasksStats(cred) ==
    /\ Ready
    /\ resp' = (IF ~auth(cred).ok THEN Denied("tasks.stats", cred)
                ELSE [Handled("tasks.stats", cred, 200, "")
                        EXCEPT !.reads = { Read("tasks", r) :
                                           r \in TasksOverview(auth(cred).company) }])
    /\ UNCHANGED <<store, ids, regs, pending, held, now>>

(* ------------------------------------------------------ record specification *)
(* Two tenants have registered (Ann for Acme, Bob with the default company  *)
(* name) and each holds the token the registration returned.                *)
RecordInit ==
    /\ companies = {[id |-> 1, name |-> "Acme"], [id |-> 2, name |-> "My Company"]}
    /\ users = {[id |-> 1, email |-> "a@x", password_hash |-> Hash("pw1"), name |-> "Ann",
                 company_id |-> 1, role |-> "user"],
                [id |-> 2, email |-> "b@x", password_hash |-> Hash("pw2"), name |-> "Bob",
                 company_id |-> 2, role |-> "user"]}
    /\ contacts = {} /\ leads = {} /\ tasks = {}
    /\ ids = [company |-> 2, user |-> 2, contact |-> 0, lead |-> 0, task |-> 0]
    /\ regs = [s \in Slots |-> IdleReg]
    /\ pending = {}
    /\ held = { [token |-> Sign(u, 0), user |-> u, at |-> 0, by |-> "register"] : u \in {1, 2} }
    /\ now = 0
    /\ resp = NoResp

Creds == HeldTokens

RowIds == 1..MaxRows

TaskUpdates == { TaskFull(c) : c \in ContactRefs } \cup {TaskMin(NoId)}

Next ==
    \/ \E cred \in Creds, st \in ContactStatuses : ContactsList(cred, st)
    \/ \E cred \in Creds, id \in RowIds : ContactsGet(cred, id)
    \/ \E cred \in Creds, b \in {ContactFull, ContactNoName} : ContactsCreate(cred, b)
    \/ \E cred \in Creds, id \in RowIds, b \in {ContactFull, ContactMin} : ContactsUpdate(cred, id, b)
    \/ \E cred \in Creds, id \in RowIds : ContactsDelete(cred, id)
    \/ \E cred \in Creds, st \in LeadStages : LeadsList(cred, st)
    \/ \E cred \in Creds, id \in RowIds : LeadsGet(cred, id)
    \/ \E cred \in Creds, b \in {LeadFull, LeadNoTitle} : LeadsCreate(cred, b)
    \/ \E cred \in Creds, id \in RowIds, b \in {LeadFull, LeadMin} : LeadsUpdate(cred, id, b)
    \/ \E cred \in Creds, id \in RowIds : LeadsDelete(cred, id)
    \/ \E cred \in Creds : LeadsStats(cred)
    \/ \E cred \in Creds, f \in TaskFilters : TasksList(cred, f)
    \/ \E cred \in Creds, id \in RowIds : TasksGet(cred, id)
    \/ \E cred \in Creds, c \in ContactRefs : TasksCreate(cred, TaskFull(c))
    \/ \E p \in pending : TasksCreateInsert(p)
    \/ \E cred \in Creds, id \in RowIds, b \in TaskUpdates : TasksUpdate(cred, id, b)
    \/ \E p \in pending : TasksUpdateWrite(p)
    \/ \E cred \in Creds, id \in RowIds : TasksDelete(cred, id)
    \/ \E cred \in Creds : TasksStats(cred)
    \/ Respond

Spec == RecordInit /\ [][Next]_vars

(* -------------------------------------------------------- task specification *)
(* Contacts coming and going under tasks that refer to them: requests of    *)
(* both tenants, with and without a token.                                  *)
TaskCreds == {NoToken} \cup HeldTokens

TaskCreates == { TaskFull(c) : c \in ContactRefs } \cup {TaskMin(NoId), TaskNoTitle(NoId)}

TaskNext ==
    \/ \E cred \in TaskCreds : ContactsCreate(cred, ContactFull)
    \/ \E cred \in TaskCreds, id \in RowIds : ContactsDelete(cred, id)
    \/ \E cred \in TaskCreds, id \in RowIds : TasksGet(cred, id)
    \/ \E cred \in TaskCreds, b \in TaskCreates : TasksCreate(cred, b)
    \/ \E p \in pending : TasksCreateInsert(p)
    \/ \E cred \in TaskCreds, id \in RowIds, b \in TaskUpdates : TasksUpdate(cred, id, b)
    \/ \E p \in pending : TasksUpdateWrite(p)
    \/ Respond

TaskSpec == RecordInit /\ [][TaskNext]_vars

(* ----------------------------------------------------- cascade specification *)
(* Tasks created on contacts that are later deleted, while the clock runs.  *)
ClockTick ==
    /\ Ready
    /\ now < MaxClock
    /\ now' = now + 1
    /\ UNCHANGED <<store, ids, regs, pending, held, resp>>

CascadeNext ==
    \/ \E cred \in Creds : ContactsCreate(cred, ContactFull)
    \/ \E cred \in Creds, id \in RowIds : ContactsDelete(cred, id)
    \/ \E cred \in Creds, id \in RowIds : TasksGet(cred, id)
    \/ \E cred \in Creds, c \in ContactRefs : TasksCreate(cred, TaskFull(c))
    \/ \E p \in pending : TasksCreateInsert(p)
    \/ ClockTick
    \/ Respond

CascadeSpec == RecordInit /\ [][CascadeNext]_vars

(* ------------------------------------------------------ list specification *)
(* Tasks of every priority and due date, created on different days and     *)
(* later stripped of their priority, listed under each filter.              *)
ListCreates == { TaskDue(p, d) : p \in {"high", "medium", "low"},
                                 d \in {Dates[1], Dates[2], NULL} }

ListNext ==
    \/ \E b \in ListCreates : TasksCreate(Sign(1, 0), b)
    \/ \E id \in RowIds : TasksUpdate(Sign(1, 0), id, TaskMin(NoId))
    \/ \E cred \in Creds, f \in TaskFilters : TasksList(cred, f)
    \/ ClockTick
    \/ Respond

ListSpec == RecordInit /\ [][ListNext]_vars

(* ------------------------------------------------ concurrent specification *)
(* One tenant's rows under several updates at a time: each update is let   *)
(* through by the middleware, stays in flight, and writes when its turn     *)
(* comes.  The updates all aim at the first row of their table.             *)
ContactUpdates == {ContactFull, ContactMin}

LeadUpdates == {LeadFull, LeadMin}

TaskChanges == {TaskFull(1), TaskFull(NoId), TaskMin(NoId)}

ConcurrentNext ==
    \/ ContactsCreate(Sign(1, 0), ContactFull)
    \/ LeadsCreate(Sign(1, 0), LeadFull)
    \/ TasksCreate(Sign(1, 0), TaskDue("low", NULL))
    \/ \E b \in ContactUpdates : ContactsUpdateBegin(Sign(1, 0), 1, b)
    \/ \E p \in pending : ContactsUpdateWrite(p)
    \/ \E b \in LeadUpdates : LeadsUpdateBegin(Sign(1, 0), 1, b)
    \/ \E p \in pending : LeadsUpdateWrite(p)
    \/ \E b \in TaskChanges : TasksUpdateBegin(Sign(1, 0), 1, b)
    \/ \E p \in pending : TasksUpdateCheck(p)
    \/ \E p \in pending : TasksUpdateWrite(p)
    \/ Respond

ConcurrentSpec == RecordInit /\ [][ConcurrentNext]_vars

(* ----------------------------------------------------- input specification *)
(* Creates and updates whose payload lacks the required field, carries it   *)
(* empty, or carries a probability outside 0..100, next to ones that are    *)
(* well formed.                                                             *)
ContactInputs == {ContactFull, ContactMin, ContactNoName, ContactBlank}

LeadInputs == {LeadMin, LeadNoTitle, LeadBlank, LeadOver, LeadUnder}

TaskInputs == {TaskFull(1), TaskMin(NoId), TaskNoTitle(NoId), TaskNoTitle(1), TaskBlank(NoId)}

(* The requests are one tenant's: validation does not look at the caller *)
InputCreds == {Sign(1, 0)}

InputNext ==
    \/ \E cred \in InputCreds, b \in ContactInputs : ContactsCreate(cred, b)
    \/ \E cred \in InputCreds, id \in RowIds, b \in ContactInputs : ContactsUpdate(cred, id, b)
    \/ \E cred \in InputCreds, b \in LeadInputs : LeadsCreate(cred, b)
    \/ \E cred \in InputCreds, id \in RowIds, b \in LeadInputs : LeadsUpdate(cred, id, b)
    \/ \E cred \in InputCreds, b \in TaskInputs : TasksCreate(cred, b)
    \/ \E p \in pending : TasksCreateInsert(p)
    \/ \E cred \in InputCreds, id \in RowIds, b \in TaskInputs : TasksUpdate(cred, id, b)
    \/ \E p \in pending : TasksUpdateWrite(p)
    \/ Respond

InputSpec == RecordInit /\ [][InputNext]_vars

(* ================================================================ claims *)

(* C2. Auth gate: a request to a protected route is handled (answered with  *)
(* anything but 401, the resolved user attached) only if it carried a token *)
(* whose signature verifies under the signing key, which has not expired,   *)
(* and whose user id is the id of a users row at that moment; in every      *)
(* other case (no token, failed verification, no such user) the answer is   *)
(* 401 and no user is attached.                                             *)
Protected(route) == route \notin {"none", "register", "login"}

Genuine(c) ==
    /\ c # NoToken
    /\ c.sig = <<Secret, c.userId, c.iat, c.exp>>
    /\ now < c.exp
    /\ \E u \in users : u.id = c.userId

AuthGate ==
    [][ (resp' # resp /\ Protected(resp'.route)) =>
          /\ Genuine(resp'.cred) =>
                /\ resp'.status # 401
                /\ resp'.user = resp'.cred.userId
                /\ \E u \in users : u.id = resp'.user /\ u.company_id = resp'.company
          /\ ~Genuine(resp'.cred) =>
                /\ resp'.status = 401
                /\ resp'.user = NoId /\ resp'.company = NoId
                /\ store' = store ]_vars

(* A verified, unexpired token whose user row is gone is turned away. *)
AuthGateWitness ==
    /\ resp.route = "me" /\ resp.status = 401
    /\ resp.cred \in HeldTokens
    /\ now < resp.cred.exp
    /\ UserById(resp.cred.userId) = {}

(* C3. A register call made with an email that already belongs to a user    *)
(* answers 400 and creates neither a user nor a company; a register call    *)
(* whose insert finds the email free (and a name) answers 201 and the user  *)
(* exists afterwards; at most one users row exists per email.               *)
EmailUnique == \A u1, u2 \in users : u1.email = u2.email => u1 = u2

RegisterConflict ==
    /\ []EmailUnique
    /\ [][ \A s \in Slots :
            /\ (regs[s].pc = "check" /\ regs[s].taken /\ regs'[s] # regs[s]) =>
                  /\ regs'[s].pc = "idle"
                  /\ resp'.route = "register" /\ resp'.slot = s /\ resp'.status = 400
                  /\ resp'.error = "User already exists"
                  /\ users' = users /\ companies' = companies
            /\ (regs[s].pc = "user" /\ regs'[s] # regs[s]
                 /\ UsersByEmail(regs[s].body.email) = {} /\ regs[s].body.name # NULL) =>
                  /\ resp'.route = "register" /\ resp'.slot = s /\ resp'.status = 201
                  /\ \E u \in users' : u.email = regs[s].body.email /\ u.id = resp'.user ]_vars

RegisterConflictWitness ==
    /\ resp.route = "register" /\ resp.status = 400
    /\ UsersByEmail(resp.email) # {}

(* C4. A login with an email no user has, and a login with a user's email   *)
(* and a password (a string) that does not match the stored hash, are both  *)
(* answered 400 {error: 'Invalid credentials'} with no token and no user    *)
(* data, and neither changes the store or the tokens in circulation.        *)
Body(r) == <<r.status, r.error, r.token, r.user, r.company>>

UnknownEmail(r) == UsersByEmail(r.email) = {}

WrongPassword(r) ==
    /\ UsersByEmail(r.email) # {}
    /\ r.password # NULL
    /\ \A u \in UsersByEmail(r.email) : u.password_hash # <<"bcrypt", r.password>>

TokenLifetime ==
    \A h \in held :
        /\ h.by \in {"register", "login"}
        /\ now < h.at + TokenTTL => (Verify(h.token, now) /\ h.token.userId = h.user)
        /\ now >= h.at + TokenTTL => ~Verify(h.token, now)
        /\ \A t \in Tampered(h.token) : ~Verify(t, now)

TokenLifetimeWitness ==
    \E h \in held : h.by = "login" /\ now = h.at + TokenTTL

(* The company of the user a presented token was issued to *)
CallerOf(r) ==
    LET us == { u \in users : \E h \in held : h.token = r.cred /\ h.user = u.id }
    IN IF us = {} THEN NoId ELSE (CHOOSE u \in us : TRUE).company_id

Differ(before, after) == (before \ after) \cup (after \ before)

Answered == resp = NoResp /\ resp' # NoResp

(* C1. Tenant isolation: every row a response was read from belongs to the  *)
(* caller's company (the contact joined to a task included), and every row  *)
(* a request inserts, changes or deletes carries the caller's company id,   *)
(* whatever id the request names.                                           *)
TenantIsolation ==
    /\ [](\A r \in resp.reads : r.company_id = CallerOf(resp))
    /\ [][ /\ \A r \in Differ(contacts, contacts') : r.company_id = CallerOf(resp')
           /\ \A r \in Differ(leads, leads') : r.company_id = CallerOf(resp')
           /\ \A r \in Differ(tasks, tasks') : r.company_id = CallerOf(resp') ]_vars

(* A caller was refused a task that exists, under its id, for the other tenant *)
TenantIsolationWitness ==
    /\ resp.route = "tasks.get" /\ resp.status = 404
    /\ \E t \in tasks : t.id = resp.id /\ t.company_id # CallerOf(resp) /\ t.contact_id # NoId

(* C6. Every task with a contact_id refers to a contacts row that exists    *)
(* and belongs to the task's own company.                                   *)
TaskContactSameCompany ==
    \A t \in tasks :
        t.contact_id # NoId =>
            \E c \in contacts : c.id = t.contact_id /\ c.company_id = t.company_id

(* The contact was deleted between a task request's check and its write,    *)
(* while another task still refers to a contact                             *)
TaskContactWitness ==
    /\ resp.route \in {"tasks.create", "tasks.update"} /\ resp.status = 500
    /\ resp.payload.contact_id # NoId
    /\ \A c \in contacts : c.id # resp.payload.contact_id

(* C7. A task create or update that names a contact_id which, when the      *)
(* handler looks it up, is no contact of the caller's company is answered   *)
(* 400 and leaves the tasks table as it was, and only a request whose       *)
(* contact_id resolved goes on to its write; a create with a title and no   *)
(* contact_id is answered 201 with the new task in the caller's company.    *)
Resolves(company, contact_id) ==
    \E c \in contacts : c.id = contact_id /\ c.company_id = company

TaskRoute(r) == r.route \in {"tasks.create", "tasks.update"} /\ r.status # 401

InvalidContactRejected ==
    [][ /\ (Answered /\ TaskRoute(resp') /\ pending' = pending
            /\ resp'.payload.contact_id # NoId
            /\ ~Resolves(CallerOf(resp'), resp'.payload.contact_id)) =>
              (resp'.status = 400 /\ tasks' = tasks)
        /\ \A p \in pending' \ pending :
              Resolves(p.company, p.body.contact_id) /\ tasks' = tasks
        /\ (Answered /\ resp'.route = "tasks.create" /\ resp'.status # 401
            /\ resp'.payload.contact_id = NoId /\ resp'.payload.title # NULL) =>
              /\ resp'.status = 201
              /\ \E t \in tasks' \ tasks :
                    /\ t.id = resp'.id /\ t.company_id = CallerOf(resp')
                    /\ t.contact_id = NoId ]_vars

(* The contact named exists, but for the other tenant *)
InvalidContactWitness ==
    /\ resp.route = "tasks.create" /\ resp.status = 400
    /\ resp.error = "Invalid contact ID"
    /\ \E c \in contacts : c.id = resp.payload.contact_id /\ c.company_id # CallerOf(resp)

(* C8. Deleting a contact deletes no task: every task is still there        *)
(* afterwards, a task that referred to the contact with contact_id null and *)
(* updated_at set to the time of the delete and every other field as it     *)
(* was, any other task unchanged; get-one still finds it, and joins no      *)
(* contact name to it.                                                      *)
ContactDeleted == Answered /\ resp'.route = "contacts.delete" /\ resp'.status = 200

ContactDeleteKeepsTasks ==
    /\ [][ ContactDeleted =>
          /\ Cardinality(tasks') = Cardinality(tasks)
          /\ \A t \in tasks :
                IF t.contact_id = resp'.id
                THEN [t EXCEPT !.contact_id = NoId, !.updated_at = now] \in tasks'
                ELSE t \in tasks'
          /\ \A t \in tasks' :
                /\ t.contact_id # resp'.id
                /\ \E u \in tasks : u.id = t.id /\ u.company_id = t.company_id
          /\ \A c \in contacts' : c.id # NoId /\ c.id # resp'.id ]_vars
    /\ [][ (Answered /\ resp'.route = "tasks.get" /\ resp'.status # 401) =>
            /\ (\E t \in tasks : t.id = resp'.id /\ t.company_id = CallerOf(resp'))
                  => resp'.status = 200
            /\ (resp'.status = 200 /\ resp'.payload.contact_id = NoId)
                  => resp'.payload.contact_name = NULL ]_vars

ContactDeleteWitness ==
    /\ resp.route = "contacts.delete" /\ resp.status = 200
    /\ \E t \in tasks : t.contact_id = NoId /\ t.updated_at > t.created_at

(* C8 as stated: every field of the task but contact_id is as it was *)
ContactDeleteLeavesOtherFields ==
    [][ ContactDeleted =>
          \A t \in tasks :
              IF t.contact_id = resp'.id
              THEN [t EXCEPT !.contact_id = NoId] \in tasks'
              ELSE t \in tasks' ]_vars

(* C9. A successful update stores the payload: every column the UPDATE sets *)
(* holds the payload's value, null where the payload leaves the field out,  *)
(* and the columns it does not set are as they were.                        *)
Updated(route) == Answered /\ resp'.route = route /\ resp'.status = 200

UpdateReplaces ==
    [][ /\ Updated("contacts.update") =>
              \E old \in contacts, r \in contacts' :
                  /\ old.id = resp'.id /\ r.id = resp'.id
                  /\ \A f \in {"name", "email", "phone", "position", "company_name",
                               "value", "notes", "status"} : r[f] = resp'.payload[f]
                  /\ \A f \in {"company_id", "last_contact", "created_at"} : r[f] = old[f]
        /\ Updated("leads.update") =>
              \E old \in leads, r \in leads' :
                  /\ old.id = resp'.id /\ r.id = resp'.id
                  /\ \A f \in {"title", "company_name", "contact_name", "value", "stage",
                               "probability", "expected_close", "source", "notes"} :
                        r[f] = resp'.payload[f]
                  /\ \A f \in {"company_id", "created_at"} : r[f] = old[f]
        /\ Updated("tasks.update") =>
              \E old \in tasks, r \in tasks' :
                  /\ old.id = resp'.id /\ r.id = resp'.id
                  /\ \A f \in {"title", "description", "due_date", "priority", "status",
                               "contact_id"} : r[f] = resp'.payload[f]
                  /\ \A f \in {"company_id", "created_at"} : r[f] = old[f] ]_vars

(* A lead created with every field was updated with the title alone *)
UpdateReplacesWitness ==
    /\ resp.route = "leads.update" /\ resp.status = 200 /\ resp.payload = LeadMin
    /\ \E r \in leads : r.id = resp.id /\ r.stage = NULL /\ r.probability = <<>>
                        /\ r.value = <<>> /\ r.source = NULL

(* C10. Get-one, update and delete of an id that no row of the caller's     *)
(* company has are answered 404 and leave the store as it was; the one      *)
(* exception is a task update that names a contact_id which is no contact   *)
(* of the caller's company: it is answered 400 before the task is looked    *)
(* up, and leaves the store as it was too.                                  *)
ById(r) ==
    IF r.route \in {"contacts.get", "contacts.update", "contacts.delete"} THEN contacts
    ELSE IF r.route \in {"leads.get", "leads.update", "leads.delete"} THEN leads
    ELSE IF r.route \in {"tasks.get", "tasks.update", "tasks.delete"} THEN tasks
    ELSE {}

OneRow(r) ==
    r.route \in {"contacts.get", "contacts.update", "contacts.delete",
                 "leads.get", "leads.update", "leads.delete",
                 "tasks.get", "tasks.update", "tasks.delete"}

NoMatch == \A row \in ById(resp') : ~(row.id = resp'.id /\ row.company_id = CallerOf(resp'))

ContactCheckFailed ==
    /\ resp'.route = "tasks.update" /\ pending' = pending
    /\ resp'.payload.contact_id # NoId
    /\ ~Resolves(CallerOf(resp'), resp'.payload.contact_id)

NotFoundOrInvalidContact ==
    [][ (Answered /\ OneRow(resp') /\ resp'.status # 401 /\ NoMatch) =>
          /\ store' = store
          /\ resp'.status = IF ContactCheckFailed THEN 400 ELSE 404 ]_vars

(* A delete named a lead that exists, under that id, for the other tenant *)
NotFoundWitness ==
    /\ resp.route = "leads.delete" /\ resp.status = 404
    /\ \E r \in leads : r.id = resp.id /\ r.company_id # CallerOf(resp)

(* C10 as stated: 404 whenever no row matches the id and the caller's company *)
NotFoundWheneverNoMatch ==
    [][ (Answered /\ OneRow(resp') /\ resp'.status # 401 /\ NoMatch) =>
          (resp'.status = 404 /\ store' = store) ]_vars

(* C15. Registration is all-or-nothing: whenever no register request is in  *)
(* flight every company has exactly one user, and a register request that  *)
(* is answered with anything but 201 leaves behind neither the company it   *)
(* inserted nor a user.                                                     *)
MembersOf(c) == { u \in users : u.company_id = c.id }

RegisterAllOrNothing ==
    /\ [](InFlight = {} => \A c \in companies : Cardinality(MembersOf(c)) = 1)
    /\ [][ (resp' # resp /\ resp'.route = "register" /\ resp'.status # 201) =>
            /\ users' = users
            /\ \A c \in companies' : c.id # regs[resp'.slot].company ]_vars

(* C11. A create whose required field (name for contacts, title for leads   *)
(* and tasks) is missing is answered 400 and inserts nothing; and no stored *)
(* contact has a null name, no stored lead or task a null title, whatever   *)
(* creates and updates have run.                                            *)
CreateRoute(r) == r.route \in {"contacts.create", "leads.create", "tasks.create"}

Required(r) == IF r.route = "contacts.create" THEN r.payload.name ELSE r.payload.title

RequiredPresent ==
    /\ [][ (Answered /\ CreateRoute(resp') /\ resp'.status # 401 /\ Required(resp') = NULL) =>
            (resp'.status = 400 /\ store' = store /\ ids' = ids /\ pending' = pending) ]_vars
    /\ [](/\ \A c \in contacts : c.name # NULL
          /\ \A l \in leads : l.title # NULL
          /\ \A t \in tasks : t.title # NULL)

(* A lead without a title was turned away from a store that holds a lead *)
RequiredPresentWitness ==
    /\ resp.route = "leads.create" /\ resp.status = 400 /\ resp.payload = LeadNoTitle
    /\ leads # {}

(* C12. Probability is clamped at write time: a lead create or update that  *)
(* supplies a probability stores it cut to 0..100 (0 for one below 0, 100   *)
(* for one above 100), and every stored probability lies in 0..100.         *)
Clamp(n) == IF n < 0 THEN 0 ELSE IF n > 100 THEN 100 ELSE n

LeadWrite(r) ==
    /\ r.route \in {"leads.create", "leads.update"}
    /\ r.status \notin {400, 401, 404}
    /\ r.payload.probability # <<>>

ProbabilityClamped ==
    /\ [][ (Answered /\ LeadWrite(resp')) =>
            \E l \in leads' : /\ resp'.status \in {200, 201}
                              /\ l.id = resp'.id
                              /\ l.probability = <<Clamp(resp'.payload.probability[1])>> ]_vars
    /\ [](\A l \in leads : l.probability = <<>> \/ l.probability[1] \in 0..100)

(* C13. A task list is in order: high before medium before low (a task      *)
(* without a priority after all of them); within one priority the earlier   *)
(* due date first and the tasks without a due date last; within one due     *)
(* date the later created first.  Every two adjacent rows obey this, and    *)
(* the rows are tasks of the caller that pass the filters, each once, all   *)
(* of them unless the limit cuts the list.                                  *)
Severity(p) == IF p = "high" THEN 1 ELSE IF p = "medium" THEN 2 ELSE IF p = "low" THEN 3 ELSE 4

Earlier(d, e) == d # NULL /\ (e = NULL \/ DateOrd(d) < DateOrd(e))

InOrder(a, b) ==
    \/ Severity(a.priority) < Severity(b.priority)
    \/ /\ Severity(a.priority) = Severity(b.priority)
       /\ \/ Earlier(a.due_date, b.due_date)
          \/ a.due_date = b.due_date /\ a.created_at >= b.created_at

Passing(r) ==
    { t \in tasks : /\ t.company_id = r.company
                    /\ r.payload.status \in {NULL, t.status}
                    /\ r.payload.priority \in {NULL, t.priority} }

TaskListOrdered ==
    (resp.route = "tasks.list" /\ resp.status = 200) =>
        /\ \A i \in 1..(Len(resp.rows) - 1) : InOrder(resp.rows[i], resp.rows[i + 1])
        /\ \A i \in DOMAIN resp.rows : \E t \in Passing(resp) : Listing(t) = resp.rows[i]
        /\ \A i, j \in DOMAIN resp.rows : i # j => resp.rows[i].id # resp.rows[j].id
        /\ Len(resp.rows) = IF Cardinality(Passing(resp)) <= resp.payload.limit
                            THEN Cardinality(Passing(resp)) ELSE resp.payload.limit

(* A low task created first is listed after a high one created later *)
TaskListOrderedWitness ==
    /\ resp.route = "tasks.list" /\ resp.status = 200 /\ Len(resp.rows) >= 2
    /\ resp.rows[1].priority = "high" /\ resp.rows[2].priority = "low"
    /\ resp.rows[1].id > resp.rows[2].id

(* C14. Updates of one row that are in flight together are applied one at   *)
(* a time, last writer wins: each update of a row the caller owns is        *)
(* answered 200 and leaves the row holding exactly its own payload, the     *)
(* other requests stay in flight untouched, and no stored row ever holds a  *)
(* mixture: its mutable fields are, as a whole, the payload of one update   *)
(* or the values it was created with.                                       *)
ContactFields == DOMAIN ContactFull

LeadFields == DOMAIN LeadFull

TaskFields == DOMAIN TaskMin(NoId)

Project(row, fields) == [f \in fields |-> row[f]]

UpdateRoute(r) == r.route \in {"contacts.update", "leads.update", "tasks.update"}

(* The request is for a row the caller owns, with a contact the caller owns *)
Applicable(r) ==
    /\ \E row \in ById(r) : row.id = r.id /\ row.company_id = r.company
    /\ r.route = "tasks.update" =>
          (r.payload.contact_id = NoId
           \/ \E c \in contacts : c.id = r.payload.contact_id /\ c.company_id = r.company)

RowAfter(r) ==
    IF r.route = "contacts.update"
    THEN { Project(c, ContactFields) : c \in { x \in contacts' : x.id = r.id } }
    ELSE IF r.route = "leads.update"
    THEN { Project(l, LeadFields) : l \in { x \in leads' : x.id = r.id } }
    ELSE { Project(t, TaskFields) : t \in { x \in tasks' : x.id = r.id } }

LastWriterWins ==
    /\ [][ (Answered /\ UpdateRoute(resp') /\ resp'.status # 401 /\ Applicable(resp')) =>
            /\ resp'.status = 200
            /\ RowAfter(resp') = {resp'.payload}
            /\ \E p \in pending : /\ p.id = resp'.id /\ p.body = resp'.payload
                                   /\ pending' = pending \ {p} ]_vars
    /\ [](/\ \A c \in contacts :
                Project(c, ContactFields) \in
                    ContactUpdates \cup {Project(ContactRow(c.id, c.company_id, ContactFull), ContactFields)}
          /\ \A l \in leads :
                Project(l, LeadFields) \in
                    LeadUpdates \cup {Project(LeadRow(l.id, l.company_id, LeadFull), LeadFields)}
          /\ \A t \in tasks :
                Project(t, TaskFields) \in
                    TaskChanges \cup {Project(TaskRow(t.id, t.company_id, TaskDue("low", NULL)), TaskFields)})

(* One update of a lead has written while another update of the same lead,  *)
(* with a different payload, is still in flight                             *)
LastWriterWinsWitness ==
    /\ resp.route = "leads.update" /\ resp.status = 200 /\ resp.payload = LeadMin
    /\ \E p \in pending : p.kind = "leads.update" /\ p.id = resp.id /\ p.body = LeadFull
    /\ \E l \in leads : l.id = resp.id /\ Project(l, LeadFields) = LeadMin

====
